---------------------------- MODULE Spec2Model ----------------------------
(***************************************************************************)
(* A model of the TOML -> configuration-dialect translator (src/main.py).  *)
(*                                                                         *)
(* Text is a sequence of one-character strings.  A value of the parsed     *)
(* document is a record tagged by its kind:                                *)
(*    [t |-> "bool",   b |-> BOOLEAN]                                      *)
(*    [t |-> "int",    n |-> Int]                                          *)
(*    [t |-> "str",    s |-> text]                                         *)
(*    [t |-> "list",   items |-> sequence of values]                       *)
(*    [t |-> "table",  entries |-> sequence of [k, v], comment |-> text]   *)
(*    [t |-> "inline", entries |-> sequence of [k, v]]                     *)
(*    [t |-> "date"]   a value kind the serializer does not know           *)
(* Tables keep their entries in document order, as tomlkit does.           *)
(***************************************************************************)
EXTENDS Integers, Sequences, FiniteSets, TLC

\* ------------------------------------------------------------------ bounds
\* Most top-level entries of a generated document.
MaxTop == 2
\* Most pieces a generated string value is concatenated from.
MaxParts == 2

\* ------------------------------------------------------------- characters
UpperChars == <<"A","B","C","D","E","F","G","H","I","J","K","L","M",
                "N","O","P","Q","R","S","T","U","V","W","X","Y","Z">>
LowerChars == <<"a","b","c","d","e","f","g","h","i","j","k","l","m",
                "n","o","p","q","r","s","t","u","v","w","x","y","z">>
DigitChars == <<"0","1","2","3","4","5","6","7","8","9">>

Range(f) == {f[i] : i \in DOMAIN f}

\* [_A-Za-z]
IdentStart == Range(UpperChars) \cup Range(LowerChars) \cup {"_"}
\* [_a-zA-Z0-9]
IdentChar == IdentStart \cup Range(DigitChars)

\* str.lower() on one character, and on a text.
LowerChar(c) ==
    IF \E i \in DOMAIN UpperChars : UpperChars[i] = c
    THEN LowerChars[CHOOSE i \in DOMAIN UpperChars : UpperChars[i] = c]
    ELSE c
lower(s) == [i \in DOMAIN s |-> LowerChar(s[i])]

\* The literal "constants" and "comments" the code compares lowered keys to.
kConstants == <<"c","o","n","s","t","a","n","t","s">>
kComments == <<"c","o","m","m","e","n","t","s">>

\* '\t' * d
Tabs(d) == [i \in 1..d |-> "\t"]

\* "sep".join(parts)
RECURSIVE Join(_, _)
Join(parts, sep) ==
    IF Len(parts) = 0 THEN <<>>
    ELSE IF Len(parts) = 1 THEN parts[1]
    ELSE parts[1] \o sep \o Join(Tail(parts), sep)

\* str(n) of an integer: its decimal digits, "-" first when negative.
RECURSIVE IntStr(_)
IntStr(n) ==
    IF n < 0 THEN <<"-">> \o IntStr(0 - n)
    ELSE IF n < 10 THEN <<DigitChars[n + 1]>>
    ELSE IntStr(n \div 10) \o <<DigitChars[(n % 10) + 1]>>

\* ------------------------------------------------------------------ values
None == [t |-> "none"]
\* An exception escaping a tree search (a TypeError of `in` or of indexing).
Raised == [t |-> "raise"]
Malformed == [t |-> "malformed"]

Bool(b) == [t |-> "bool", b |-> b]
Int_(n) == [t |-> "int", n |-> n]
Str(s) == [t |-> "str", s |-> s]
List(items) == [t |-> "list", items |-> items]
Table(entries, comment) == [t |-> "table", entries |-> entries, comment |-> comment]
Inline(entries) == [t |-> "inline", entries |-> entries]
Date == [t |-> "date"]
E(k, v) == [k |-> k, v |-> v]

\* isinstance(value, dict): tomlkit's Table and InlineTable both are.
IsDict(v) == v.t \in {"table", "inline"}

\* The outcome of an operation that may raise: its value, or the exception.
Ok(out) == [ok |-> TRUE, kind |-> "", name |-> <<>>, out |-> out]
Err(kind, name) == [ok |-> FALSE, kind |-> kind, name |-> name, out |-> <<>>]

\* name_pattern.match(key): ^[_A-Za-z][_a-zA-Z0-9]*$, where $ also matches
\* just before a newline that ends the text.
name_pattern(key) ==
    LET n == IF Len(key) > 0 /\ key[Len(key)] = "\n" THEN Len(key) - 1 ELSE Len(key)
    IN  /\ n >= 1
        /\ key[1] \in IdentStart
        /\ \A i \in 2..n : key[i] \in IdentChar


\* --------------------------------------------------- constant resolution
\* `const_name in value` as Python evaluates it for each kind of value:
\* key membership for a mapping, element equality for a list, substring
\* for a str, a TypeError for anything else.
IsSubstringAt(s, old, i) ==
    /\ i + Len(old) - 1 <= Len(s)
    /\ \A j \in 1..Len(old) : s[i + j - 1] = old[j]
Contains(value, const_name) ==
    IF IsDict(value)
    THEN IF \E i \in DOMAIN value.entries : value.entries[i].k = const_name
         THEN "yes" ELSE "no"
    ELSE IF value.t = "list"
    THEN IF \E i \in DOMAIN value.items :
               value.items[i].t = "str" /\ value.items[i].s = const_name
         THEN "yes" ELSE "no"
    ELSE IF value.t = "str"
    THEN IF \E i \in 1..(Len(value.s) + 1) : IsSubstringAt(value.s, const_name, i)
         THEN "yes" ELSE "no"
    ELSE "raise"

\* value[const_name]: the entry of a mapping; str and list indices must be
\* integers, so anything else raises.
GetItem(value, const_name) ==
    IF IsDict(value)
    THEN value.entries[CHOOSE i \in DOMAIN value.entries :
                           value.entries[i].k = const_name].v
    ELSE Raised

\* `if found is not None: return found`, else go on with the next entry.
\* An exception of the inner search passes through as Raised.
FoundOr(found, next) == IF found # None THEN found ELSE next

\* One entry of the loop of get_constant_value over a mapping; `c` is the
\* outcome of `key.lower() == "constants" and const_name in value`.
GcvEntry(c, value, const_name, searchBelow) ==
    IF c = "raise" THEN Raised
    ELSE IF c = "yes" THEN GetItem(value, const_name)
    ELSE searchBelow

RECURSIVE get_constant_value(_, _), gcv_dict(_, _, _), gcv_list(_, _, _)
get_constant_value(obj, const_name) ==
    IF IsDict(obj) THEN gcv_dict(obj.entries, 1, const_name)
    ELSE IF obj.t = "list" THEN gcv_list(obj.items, 1, const_name)
    ELSE None
gcv_dict(es, i, const_name) ==
    IF i > Len(es) THEN None
    ELSE GcvEntry(IF lower(es[i].k) = kConstants
                  THEN Contains(es[i].v, const_name) ELSE "no",
                  es[i].v, const_name,
                  FoundOr(get_constant_value(es[i].v, const_name),
                          gcv_dict(es, i + 1, const_name)))
gcv_list(items, i, const_name) ==
    IF i > Len(items) THEN None
    ELSE FoundOr(get_constant_value(items[i], const_name),
                 gcv_list(items, i + 1, const_name))

\* ------------------------------------------------- sequencing of outcomes
\* `r`, then `rest` unless r raised: the texts concatenated.
Cat(r, rest) ==
    IF ~r.ok THEN r ELSE IF ~rest.ok THEN rest ELSE Ok(r.out \o rest.out)
\* `r`, then `rest` unless r raised: r's value put in front of the list.
Cons(r, rest) ==
    IF ~r.ok THEN r ELSE IF ~rest.ok THEN rest ELSE Ok(<<r.out>> \o rest.out)
\* The value of r between two texts.
Wrap(pre, r, post) == IF r.ok THEN Ok(pre \o r.out \o post) ELSE r

\* ---------------------------------------------------- constant discovery
\* collect_constants adds to the global set `consts`; here the names are
\* accumulated in the order they are added.  A failure carries the names
\* added before it in `out`.
ErrAt(kind, name, acc) == [ok |-> FALSE, kind |-> kind, name |-> name, out |-> acc]

RECURSIVE collect_constants(_, _), collect_dict(_, _, _), collect_names(_, _, _),
          collect_list(_, _, _), collect_dict_next(_, _, _), collect_list_next(_, _, _)
collect_constants(obj, acc) ==
    IF IsDict(obj) THEN collect_dict(obj.entries, 1, acc)
    ELSE IF obj.t = "list" THEN collect_list(obj.items, 1, acc)
    ELSE Ok(acc)
collect_dict(es, i, acc) ==
    IF i > Len(es) THEN Ok(acc)
    ELSE collect_dict_next(es, i,
             IF lower(es[i].k) = kConstants
             THEN IF ~IsDict(es[i].v)
                  THEN ErrAt("Constants should be a dictionary.", <<>>, acc)
                  ELSE collect_names(es[i].v.entries, 1, acc)
             ELSE collect_constants(es[i].v, acc))
collect_dict_next(es, i, r) == IF r.ok THEN collect_dict(es, i + 1, r.out) ELSE r
collect_names(es, i, acc) ==
    IF i > Len(es) THEN Ok(acc)
    ELSE IF ~name_pattern(es[i].k)
    THEN ErrAt("Invalid constant name", es[i].k, acc)
    ELSE IF es[i].k \in Range(acc)
    THEN ErrAt("Duplicate constant", es[i].k, acc)
    ELSE collect_names(es, i + 1, Append(acc, es[i].k))
collect_list(items, i, acc) ==
    IF i > Len(items) THEN Ok(acc)
    ELSE collect_list_next(items, i, collect_constants(items[i], acc))
collect_list_next(items, i, r) == IF r.ok THEN collect_list(items, i + 1, r.out) ELSE r

\* ------------------------------------------------------------ substitution
\* re.findall(r'\.\{([_A-Za-z][_a-zA-Z0-9]*)\}.', value): the last dot of the
\* pattern is not escaped and stands for any character but a newline.
RECURSIVE IdentEnd(_, _)
IdentEnd(s, j) ==
    IF j <= Len(s) /\ s[j] \in IdentChar THEN IdentEnd(s, j + 1) ELSE j

\* Given the index e just past the name of a candidate match: the index
\* of the match's last character, or 0 when "}" and one more character do
\* not follow.
MatchTail(s, e) ==
    IF e + 1 <= Len(s) /\ s[e] = "}" /\ s[e + 1] # "\n" THEN e + 1 ELSE 0

\* The index of the last character of a match that starts at i, or 0.
MatchAt(s, i) ==
    IF /\ i + 2 <= Len(s)
       /\ s[i] = "."
       /\ s[i + 1] = "{"
       /\ s[i + 2] \in IdentStart
    THEN MatchTail(s, IdentEnd(s, i + 3))
    ELSE 0

RECURSIVE findall(_, _), findall_from(_, _, _)
findall(s, i) ==
    IF i > Len(s) THEN <<>> ELSE findall_from(s, i, MatchAt(s, i))
findall_from(s, i, e) ==
    IF e > 0 THEN <<SubSeq(s, i + 2, e - 2)>> \o findall(s, e + 1)
    ELSE findall(s, i + 1)

\* value.replace(old, new): every non-overlapping occurrence, left to right.
RECURSIVE replace(_, _, _, _)
replace(s, old, new, i) ==
    IF i > Len(s) THEN <<>>
    ELSE IF IsSubstringAt(s, old, i) THEN new \o replace(s, old, new, i + Len(old))
    ELSE <<s[i]>> \o replace(s, old, new, i + 1)

\* f".{{{match}}}."
Placeholder(name) == <<".", "{">> \o name \o <<"}", ".">>

\* str(const_value).  The repr of a container or of a date-time is kept
\* opaque: one token for its content.
PyStr(v) ==
    CASE v.t = "bool" -> IF v.b THEN <<"T","r","u","e">> ELSE <<"F","a","l","s","e">>
      [] v.t = "int" -> IntStr(v.n)
      [] v.t = "str" -> v.s
      [] v.t = "none" -> <<"N","o","n","e">>
      [] v.t = "list" -> <<"[", "...", "]">>
      [] IsDict(v) -> <<"{", "...", "}">>
      [] OTHER -> <<"...">>

\* The loop over the matches: each name is looked up in consts, resolved
\* in the tree, and its placeholder replaced in the text as it stands.
RECURSIVE rcs_loop(_, _, _, _, _), rcs_replace(_, _, _, _, _, _)
rcs_loop(matches, i, value, toml_doc, cs) ==
    IF i > Len(matches) THEN Ok(value)
    ELSE IF matches[i] \notin cs THEN Err("Undefined constant", matches[i])
    ELSE rcs_replace(matches, i, value, toml_doc, cs,
                     get_constant_value(toml_doc, matches[i]))
rcs_replace(matches, i, value, toml_doc, cs, const_value) ==
    IF const_value = Raised THEN Err("TypeError", matches[i])
    ELSE rcs_loop(matches, i + 1,
                  replace(value, Placeholder(matches[i]), PyStr(const_value), 1),
                  toml_doc, cs)

replace_constants_in_string(value, toml_doc, cs) ==
    rcs_loop(findall(value, 1), 1, value, toml_doc, cs)

\* replace_constants: the tree with every string leaf substituted.
OkStr(r) == IF r.ok THEN Ok(Str(r.out)) ELSE r
OkDict(r) == IF r.ok THEN Ok(Inline(r.out)) ELSE r
OkList(r) == IF r.ok THEN Ok(List(r.out)) ELSE r
OkEntry(k, r) == IF r.ok THEN Ok(E(k, r.out)) ELSE r
RECURSIVE replace_constants(_, _, _), rc_entries(_, _, _, _), rc_items(_, _, _, _)
replace_constants(obj, toml_doc, cs) ==
    IF obj.t = "str" THEN OkStr(replace_constants_in_string(obj.s, toml_doc, cs))
    ELSE IF IsDict(obj) THEN OkDict(rc_entries(obj.entries, 1, toml_doc, cs))
    ELSE IF obj.t = "list" THEN OkList(rc_items(obj.items, 1, toml_doc, cs))
    ELSE Ok(obj)
rc_entries(es, i, toml_doc, cs) ==
    IF i > Len(es) THEN Ok(<<>>)
    ELSE Cons(OkEntry(es[i].k, replace_constants(es[i].v, toml_doc, cs)),
              rc_entries(es, i + 1, toml_doc, cs))
rc_items(items, i, toml_doc, cs) ==
    IF i > Len(items) THEN Ok(<<>>)
    ELSE Cons(replace_constants(items[i], toml_doc, cs),
              rc_items(items, i + 1, toml_doc, cs))

\* ------------------------------------------------------------- serializer
\* ", ".join(items) and ",\n".join(entries) of the rendered parts.
Joined(r, sep) == IF r.ok THEN Ok(Join(r.out, sep)) ELSE r

RECURSIVE process_value(_, _, _, _), process_array(_, _, _, _),
          process_dict(_, _, _, _), pa_items(_, _, _, _, _), pd_entries(_, _, _, _, _)
\* "#( " + ", ".join(items_list) + " )"
process_array(arr, d, toml_doc, cs) ==
    Wrap(<<"#", "(", " ">>,
         Joined(pa_items(arr.items, 1, d, toml_doc, cs), <<",", " ">>),
         <<" ", ")">>)
\* "$[\n" + ",\n".join(entries) + "\n" + '\t' * (d - 1) + "]"
process_dict(obj, d, toml_doc, cs) ==
    Wrap(<<"$", "[", "\n">>,
         Joined(pd_entries(obj.entries, 1, d, toml_doc, cs), <<",", "\n">>),
         <<"\n">> \o Tabs(d - 1) \o <<"]">>)
process_value(value, d, toml_doc, cs) ==
    CASE value.t = "bool" ->
            Ok(IF value.b THEN <<"t","r","u","e">> ELSE <<"f","a","l","s","e">>)
      [] value.t = "int" -> Ok(IntStr(value.n))
      [] value.t = "str" ->
            Wrap(<<"\"">>, replace_constants_in_string(value.s, toml_doc, cs), <<"\"">>)
      [] value.t = "list" -> process_array(value, d, toml_doc, cs)
      [] IsDict(value) -> process_dict(value, d, toml_doc, cs)
      [] OTHER -> Err("Unsupported type", <<>>)
\* The list comprehension of process_array: the rendered items, in order.
pa_items(items, i, d, toml_doc, cs) ==
    IF i > Len(items) THEN Ok(<<>>)
    ELSE Cons(process_value(items[i], d, toml_doc, cs),
              pa_items(items, i + 1, d, toml_doc, cs))
\* The loop of process_dict: one "<indent>key = value" text per entry.
pd_entries(es, i, d, toml_doc, cs) ==
    IF i > Len(es) THEN Ok(<<>>)
    ELSE IF ~name_pattern(es[i].k) THEN Err("Unsupported identifier name", es[i].k)
    ELSE Cons(Wrap(Tabs(d) \o es[i].k \o <<" ", "=", " ">>,
                   process_value(es[i].v, d + 1, toml_doc, cs), <<>>),
              pd_entries(es, i + 1, d, toml_doc, cs))

\* One declaration: the value found for the name, rendered at depth 1.
\* A name that resolves to None reaches process_value's last branch.
Declaration(const_name, const_value, obj, cs) ==
    IF const_value = Raised THEN Err("TypeError", const_name)
    ELSE IF const_value = None THEN Err("Unsupported type", <<>>)
    ELSE Wrap(<<"d","e","f"," ">> \o const_name \o <<" ",":","="," ">>,
              process_value(const_value, 1, obj, cs), <<";">>)

\* process_constants over the names in the order the set yields them.
RECURSIVE pc_decls(_, _, _, _)
pc_decls(order, i, obj, cs) ==
    IF i > Len(order) THEN Ok(<<>>)
    ELSE Cons(Declaration(order[i], get_constant_value(obj, order[i]), obj, cs),
              pc_decls(order, i + 1, obj, cs))
process_constants(obj, order, cs) == Joined(pc_decls(order, 1, obj, cs), <<"\n">>)

\* ---------------------------------------------------------- section emitter
\* s.strip(chars): the characters of `chars` removed from both ends.
RECURSIVE lstrip(_, _), rstrip(_, _)
lstrip(s, chars) ==
    IF Len(s) > 0 /\ s[1] \in chars THEN lstrip(Tail(s), chars) ELSE s
rstrip(s, chars) ==
    IF Len(s) > 0 /\ s[Len(s)] \in chars THEN rstrip(SubSeq(s, 1, Len(s) - 1), chars)
    ELSE s
strip(s, chars) == rstrip(lstrip(s, chars), chars)
Whitespace == {" ", "\t", "\n", "\r"}

\* The keys of one section: the "constants" and "comments" keys are skipped,
\* every other key is validated and its value rendered at depth d + 1.
RECURSIVE po_keys(_, _, _, _, _)
po_keys(es, i, d, toml_doc, cs) ==
    IF i > Len(es) THEN Ok(<<>>)
    ELSE IF lower(es[i].k) = kConstants \/ lower(es[i].k) = kComments
    THEN po_keys(es, i + 1, d, toml_doc, cs)
    ELSE IF ~name_pattern(es[i].k) THEN Err("Unsupported identifier name", es[i].k)
    ELSE Cat(Wrap(Tabs(d + 1) \o es[i].k \o <<" ", "=", " ">>,
                  process_value(es[i].v, d + 1, toml_doc, cs), <<"\n">>),
             po_keys(es, i + 1, d, toml_doc, cs))

\* The "\ comment" line of a section whose header carries comment trivia.
CommentLines(comments, d) ==
    IF Len(comments) > 0
    THEN <<"\n">> \o Tabs(d) \o <<"\\", " ">>
         \o strip(strip(comments, {"#", " "}), Whitespace)
    ELSE <<>>

\* The text one top-level entry adds to the result: a block for a Table,
\* nothing for an inline table or for any other value.
po_section(section_name, section, d, toml_doc, cs) ==
    IF section.t # "table" THEN Ok(<<>>)
    ELSE IF ~name_pattern(section_name)
    THEN Err("Unsupported section name", section_name)
    ELSE Wrap(Tabs(d) \o section_name \o <<" ", "=", " ", "$", "[", "\n">>,
              po_keys(section.entries, 1, d, toml_doc, cs),
              Tabs(d) \o <<"]">> \o CommentLines(section.comment, d) \o <<"\n">>)

RECURSIVE po_sections(_, _, _, _, _)
po_sections(es, i, d, toml_doc, cs) ==
    IF i > Len(es) THEN Ok(<<>>)
    ELSE Cat(po_section(es[i].k, es[i].v, d, toml_doc, cs),
             po_sections(es, i + 1, d, toml_doc, cs))
process_object(toml_doc, d, cs) == po_sections(toml_doc.entries, 1, d, toml_doc, cs)

\* ------------------------------------------------------ the input documents
\* Keys and names used by the generated documents.
nA == <<"A">>
nB == <<"B">>
nU == <<"U">>
nM == <<"M">>
nT == <<"T">>
nD == <<"D">>
nX == <<"X">>
nY == <<"Y">>
nW == <<"W">>
nS == <<"S">>
kHost == <<"h","o","s","t">>
kPort == <<"p","o","r","t">>
kCred == <<"c","r","e","d">>
kUser == <<"u","s","e","r">>
kKey == <<"k">>
kBadKey == <<"1","k">>
kBadName == <<"a","-","b">>
kCONSTANTS == <<"C","o","n","s","t","a","n","t","s">>
Sec(n) == <<"s">> \o IntStr(n)

\* The top-level entries a document is put together from.
EntryPool ==
    { \* two ordinary sections, each with its own constants table
      E(Sec(1), Table(<<E(kHost, Str(<<"x">>)), E(kPort, Int_(80)),
                        E(kConstants, Inline(<<E(nM, Int_(100)), E(nT, Int_(30))>>))>>,
                      <<>>)),
      E(Sec(2), Table(<<E(kCred, Inline(<<E(kUser, Str(<<"a">>)), E(kPort, Int_(1))>>)),
                        E(kPort, List(<<Int_(1), Int_(2)>>)),
                        E(kCONSTANTS, Inline(<<E(nD, Int_(5))>>))>>,
                      <<>>)),
      \* M declared again
      E(Sec(3), Table(<<E(kConstants, Inline(<<E(nM, Bool(TRUE))>>))>>, <<>>)),
      \* D declared in a constants table that lies inside a constant's value
      E(Sec(4), Table(<<E(kConstants,
                          Inline(<<E(nX, Inline(<<E(kConstants,
                                                    Inline(<<E(nD, Int_(9))>>))>>))>>))>>,
                      <<>>)),
      \* names that are no identifiers: a section, a key, a constant,
      \* a top-level key of a scalar, a key below "comments"
      E(<<"b","-","s">>, Table(<<E(kKey, Int_(1))>>, <<>>)),
      E(Sec(6), Table(<<E(kBadKey, Int_(1))>>, <<>>)),
      E(Sec(7), Table(<<E(kConstants, Inline(<<E(kBadName, Int_(1))>>))>>, <<>>)),
      E(<<"b","-","d">>, Int_(1)),
      E(Sec(8), Table(<<E(kComments, Inline(<<E(kBadName, Int_(1))>>)),
                        E(kKey, Bool(FALSE))>>, <<>>)),
      \* "constants" that is no table
      E(Sec(9), Table(<<E(kConstants, Int_(5))>>, <<>>)),
      \* a value kind the serializer rejects, as data and as a constant
      E(Sec(10), Table(<<E(kKey, Date)>>, <<>>)),
      E(Sec(11), Table(<<E(kConstants, Inline(<<E(nW, Date)>>))>>, <<>>)),
      \* a constant whose string value names an unregistered constant
      E(Sec(12), Table(<<E(kConstants,
                           Inline(<<E(nS, Str(<<".","{","U","}",".">>))>>))>>, <<>>)),
      \* a section with comment trivia on its header
      E(Sec(13), Table(<<E(kKey, Bool(TRUE))>>, <<"#", " ", "c">>)),
      \* a top-level inline table
      E(Sec(14), Inline(<<E(kKey, Int_(1))>>)),
      \* "constants" that is no table, inside a constant's value
      E(Sec(15), Table(<<E(kConstants,
                           Inline(<<E(nY, Inline(<<E(kConstants, Int_(5))>>))>>))>>,
                       <<>>)) }

\* The document with the given top-level entries.
Doc(entries) == Table(entries, <<>>)

StructDocs ==
    { Doc(es) : es \in { f \in UNION { [1..n -> EntryPool] : n \in 1..MaxTop } :
                            \A i, j \in DOMAIN f : i # j => f[i].k # f[j].k } }

\* String values: up to MaxParts pieces, concatenated.
Pieces ==
    { <<".","{","A","}",".">>, <<".","{","B","}",".">>, <<".","{","U","}">>,
      <<".","{","A","}">>, <<"x">>, <<".">> }
RECURSIVE Flatten(_)
Flatten(parts) == IF Len(parts) = 0 THEN <<>> ELSE parts[1] \o Flatten(Tail(parts))
Strings == { Flatten(f) : f \in UNION { [1..n -> Pieces] : n \in 0..MaxParts } }

\* The constants tables the string values are substituted under.
Bases ==
    { Inline(<<E(nA, Bool(TRUE)), E(nB, Int_(7))>>),
      Inline(<<E(nA, Str(<<".","{","B","}",".">>)), E(nB, Int_(7))>>),
      Inline(<<E(nA, Int_(12))>>) }
TextDocs ==
    { Doc(<<E(Sec(1), Table(<<E(kConstants, base)>>, <<>>)),
            E(Sec(2), Table(<<E(kKey, Str(s))>>, <<>>))>>) :
        base \in Bases, s \in Strings }

Docs == StructDocs \cup TextDocs
\* What standard input may hold: a document, or text that does not parse.
Inputs == Docs \cup {Malformed}

\* ------------------------------------------------------------------- main
VARIABLES
    input,               \* the input, as the parser will see it
    pc,                  \* the statement of main() that runs next
    toml_doc,            \* the parsed document
    consts,              \* the global set of constant names
    const_declarations,  \* the text of the def lines
    data,                \* the substituted copy of the tree
    config,              \* the text of the section blocks
    result,              \* the text to write
    fileOpened,          \* whether open(output_file, "w") has succeeded
    fileWritten,         \* whether f.write(result) has succeeded
    fileContent,         \* the content of the output file
    stdout,              \* the lines printed to standard output
    stderr,              \* the lines printed to the error stream
    exit_status          \* the process's exit status, -1 while it runs

vars == <<input, pc, toml_doc, consts, const_declarations, data, config, result,
          fileOpened, fileWritten, fileContent, stdout, stderr, exit_status>>

Init ==
    /\ input \in Inputs
    /\ pc = "parse"
    /\ toml_doc = None
    /\ consts = {}
    /\ const_declarations = <<>>
    /\ data = None
    /\ config = <<>>
    /\ result = <<>>
    /\ fileOpened = FALSE
    /\ fileWritten = FALSE
    /\ fileContent = <<>>
    /\ stdout = <<>>
    /\ stderr = <<>>
    /\ exit_status = -1

\* The handler without its sys.exit(1): the line is printed, main returns
\* and the process ends with status 0.
HandlerWithoutExit(e) ==
    /\ stderr' = Append(stderr, [prefix |-> "Error: ", kind |-> e.kind, name |-> e.name])
    /\ exit_status' = 0
    /\ pc' = "exit"

\* except Exception as e: print(f"Error: {e}", file=sys.stderr); sys.exit(1)
Handler(e) ==
    /\ stderr' = Append(stderr, [prefix |-> "Error: ", kind |-> e.kind, name |-> e.name])
    /\ exit_status' = 1
    /\ pc' = "exit"

\* What a statement of the try block does with the outcome r of its call:
\* on success `assign` holds and control passes to `next`; an exception
\* reaches the handler and leaves the statement's target `kept` unassigned.
Step(r, assign, next, kept) ==
    IF r.ok
    THEN /\ assign
         /\ pc' = next
         /\ UNCHANGED <<stderr, exit_status>>
    ELSE /\ Handler(r)
         /\ kept

\* toml_doc = parse(input_data)
Parse ==
    /\ pc = "parse"
    /\ Step(IF input = Malformed THEN Err("Malformed input", <<>>) ELSE Ok(input),
            toml_doc' = input, "collect", UNCHANGED toml_doc)
    /\ UNCHANGED <<input, consts, const_declarations, data, config, result,
                   fileOpened, fileWritten, fileContent, stdout>>

\* collect_constants(toml_doc): the names added to consts stay added when
\* the walk raises.
CollectStep(r) ==
    /\ consts' = consts \cup Range(r.out)
    /\ Step(r, TRUE, "declare", TRUE)
Collect ==
    /\ pc = "collect"
    /\ CollectStep(collect_constants(toml_doc, <<>>))
    /\ UNCHANGED <<input, toml_doc, const_declarations, data, config, result,
                   fileOpened, fileWritten, fileContent, stdout>>

\* The orders in which iterating a set of strings may yield its elements:
\* the order depends on the process's string hashing, not on insertion.
Orders(S) ==
    { f \in [1..Cardinality(S) -> S] : \A i, j \in DOMAIN f : i # j => f[i] # f[j] }

\* const_declarations = process_constants(toml_doc)
DeclareStep(r) ==
    Step(r, const_declarations' = r.out, "substitute", UNCHANGED const_declarations)
Declare ==
    /\ pc = "declare"
    /\ \E order \in Orders(consts) :
          DeclareStep(process_constants(toml_doc, order, consts))
    /\ UNCHANGED <<input, toml_doc, consts, data, config, result,
                   fileOpened, fileWritten, fileContent, stdout>>

\* data = replace_constants(toml_doc, toml_doc)
SubstituteStep(r) == Step(r, data' = r.out, "emit", UNCHANGED data)
Substitute ==
    /\ pc = "substitute"
    /\ SubstituteStep(replace_constants(toml_doc, toml_doc, consts))
    /\ UNCHANGED <<input, toml_doc, consts, const_declarations, config, result,
                   fileOpened, fileWritten, fileContent, stdout>>

\* output_lines = [const_declarations, ""] if const_declarations else [],
\* then config appended; result = "\n".join(output_lines)
OutputText(decls, cfg) ==
    Join((IF Len(decls) > 0 THEN <<decls, <<>>>> ELSE <<>>) \o <<cfg>>, <<"\n">>)
\* config = process_object(toml_doc, 1) and the joining of the output
EmitStep(r) ==
    Step(r, config' = r.out /\ result' = OutputText(const_declarations, r.out),
         "write", UNCHANGED <<config, result>>)
Emit ==
    /\ pc = "emit"
    /\ EmitStep(process_object(toml_doc, 1, consts))
    /\ UNCHANGED <<input, toml_doc, consts, const_declarations, data,
                   fileOpened, fileWritten, fileContent, stdout>>

\* with open(output_file, "w") as f: f.write(result); print(...)
\* Opening or writing may fail; opening for writing empties the file.
Write ==
    /\ pc = "write"
    /\ \E io \in {"ok", "open fails", "write fails"} :
         IF io = "ok"
         THEN /\ fileOpened' = TRUE
              /\ fileWritten' = TRUE
              /\ fileContent' = result
              /\ stdout' = Append(stdout, "Translation completed successfully.")
              /\ exit_status' = 0
              /\ pc' = "exit"
              /\ UNCHANGED stderr
         ELSE /\ fileOpened' = (io = "write fails")
              /\ Handler(Err("I/O failure", <<>>))
              /\ UNCHANGED <<fileWritten, fileContent, stdout>>
    /\ UNCHANGED <<input, toml_doc, consts, const_declarations, data, config, result>>

Next == Parse \/ Collect \/ Declare \/ Substitute \/ Emit \/ Write

Spec == Init /\ [][Next]_vars


\* ------------------------------------------------- notions the claims use
\* The grammar of an identifier: ^[A-Za-z_][A-Za-z0-9_]*$, nothing else.
IsIdentifier(name) ==
    /\ Len(name) >= 1
    /\ name[1] \in IdentStart
    /\ \A i \in 2..Len(name) : name[i] \in IdentChar

Keys(entries) == {entries[i].k : i \in DOMAIN entries}

\* Every key of every table of the tree.
RECURSIVE AllKeys(_)
AllKeys(v) ==
    IF IsDict(v)
    THEN Keys(v.entries) \cup UNION {AllKeys(v.entries[i].v) : i \in DOMAIN v.entries}
    ELSE IF v.t = "list" THEN UNION {AllKeys(v.items[i]) : i \in DOMAIN v.items}
    ELSE {}
InvalidNames(doc) == {k \in AllKeys(doc) : ~IsIdentifier(k)}

\* The constants tables of the tree in document order: every table reached
\* under a key equal to "constants", ignoring case, at any depth.
RECURSIVE ConstTables(_), ConstTablesOf(_, _)
ConstTables(v) ==
    IF IsDict(v) THEN ConstTablesOf(v.entries, 1)
    ELSE IF v.t = "list"
    THEN Flatten([i \in DOMAIN v.items |-> ConstTables(v.items[i])])
    ELSE <<>>
ConstTablesOf(es, i) ==
    IF i > Len(es) THEN <<>>
    ELSE (IF lower(es[i].k) = kConstants /\ IsDict(es[i].v)
          THEN <<es[i].v.entries>> ELSE <<>>)
         \o ConstTables(es[i].v) \o ConstTablesOf(es, i + 1)

\* The names declared in two different constants tables.
DupNames(doc) ==
    LET ts == ConstTables(doc)
    IN  {n \in AllKeys(doc) :
           \E i, j \in DOMAIN ts : i # j /\ n \in Keys(ts[i]) /\ n \in Keys(ts[j])}

\* The value declared for `name` in the table discovery registers it from:
\* the first constants table, in the order collect_constants walks the
\* tree, that has the name.
RECURSIVE DeclaredValue(_, _), DeclaredIn(_, _, _), DeclaredAmong(_, _, _)
DeclaredValue(v, name) ==
    IF IsDict(v) THEN DeclaredIn(v.entries, 1, name)
    ELSE IF v.t = "list" THEN DeclaredAmong(v.items, 1, name)
    ELSE None
DeclaredIn(es, i, name) ==
    IF i > Len(es) THEN None
    ELSE IF lower(es[i].k) = kConstants
    THEN IF IsDict(es[i].v) /\ name \in Keys(es[i].v.entries)
         THEN GetItem(es[i].v, name)
         ELSE DeclaredIn(es, i + 1, name)
    ELSE FoundOr(DeclaredValue(es[i].v, name), DeclaredIn(es, i + 1, name))
DeclaredAmong(items, i, name) ==
    IF i > Len(items) THEN None
    ELSE FoundOr(DeclaredValue(items[i], name), DeclaredAmong(items, i + 1, name))

\* The string leaves of the tree, each with the leaf at the same place of
\* the substituted copy.
RECURSIVE LeafPairs(_, _)
LeafPairs(v, w) ==
    IF v.t = "str" THEN {<<v.s, w.s>>}
    ELSE IF IsDict(v)
    THEN UNION {LeafPairs(v.entries[i].v, w.entries[i].v) : i \in DOMAIN v.entries}
    ELSE IF v.t = "list"
    THEN UNION {LeafPairs(v.items[i], w.items[i]) : i \in DOMAIN v.items}
    ELSE {}
RECURSIVE StringLeaves(_)
StringLeaves(v) ==
    IF v.t = "str" THEN {v.s}
    ELSE IF IsDict(v) THEN UNION {StringLeaves(v.entries[i].v) : i \in DOMAIN v.entries}
    ELSE IF v.t = "list" THEN UNION {StringLeaves(v.items[i]) : i \in DOMAIN v.items}
    ELSE {}

\* The full placeholder .{NAME}. at index i: dot, brace, identifier, brace,
\* dot.  FullEnd is the index of its closing dot, or 0.
FullTail(s, e) ==
    IF e + 1 <= Len(s) /\ s[e] = "}" /\ s[e + 1] = "." THEN e + 1 ELSE 0
FullEnd(s, i) ==
    IF /\ i + 2 <= Len(s)
       /\ s[i] = "."
       /\ s[i + 1] = "{"
       /\ s[i + 2] \in IdentStart
    THEN FullTail(s, IdentEnd(s, i + 3))
    ELSE 0
\* The names of the full placeholders that occur in s.
PlaceholderNames(s) ==
    {SubSeq(s, i + 2, FullEnd(s, i) - 2) : i \in {j \in DOMAIN s : FullEnd(s, j) > 0}}

\* The canonical text of a boolean or a number.
Canonical(v) ==
    IF v.t = "bool"
    THEN (IF v.b THEN <<"t","r","u","e">> ELSE <<"f","a","l","s","e">>)
    ELSE IntStr(v.n)

\* One pass over s, left to right: each full placeholder of a registered
\* name gives way to the text of its value, and the scan goes on behind it.
RECURSIVE SinglePass(_, _, _, _), SinglePassAt(_, _, _, _, _)
SinglePass(s, i, doc, cs) ==
    IF i > Len(s) THEN <<>> ELSE SinglePassAt(s, i, doc, cs, FullEnd(s, i))
SinglePassAt(s, i, doc, cs, e) ==
    IF e > 0 /\ SubSeq(s, i + 2, e - 2) \in cs
    THEN PyStr(get_constant_value(doc, SubSeq(s, i + 2, e - 2)))
         \o SinglePass(s, e + 1, doc, cs)
    ELSE <<s[i]>> \o SinglePass(s, i + 1, doc, cs)

\* The same pass with the canonical text of each value.
RECURSIVE CanonicalPass(_, _, _, _), CanonicalPassAt(_, _, _, _, _)
CanonicalPass(s, i, doc, cs) ==
    IF i > Len(s) THEN <<>> ELSE CanonicalPassAt(s, i, doc, cs, FullEnd(s, i))
CanonicalPassAt(s, i, doc, cs, e) ==
    IF e > 0 /\ SubSeq(s, i + 2, e - 2) \in cs
    THEN Canonical(get_constant_value(doc, SubSeq(s, i + 2, e - 2)))
         \o CanonicalPass(s, e + 1, doc, cs)
    ELSE <<s[i]>> \o CanonicalPass(s, i + 1, doc, cs)

\* Where main() stands.
Parsed == toml_doc # None
Discovered == pc \in {"declare", "substitute", "emit", "write"}
Substituted == data # None
Emitted == pc = "write" \/ fileOpened \/ exit_status = 0
Failed(kind) == pc = "exit" /\ Len(stderr) > 0 /\ stderr[1].kind = kind

\* The five phases before the write all succeed on this input.
CoreSucceeds(in) ==
    /\ in # Malformed
    /\ collect_constants(in, <<>>).ok
    /\ \A order \in Orders(Range(collect_constants(in, <<>>).out)) :
          process_constants(in, order, Range(collect_constants(in, <<>>).out)).ok
    /\ replace_constants(in, in, Range(collect_constants(in, <<>>).out)).ok
    /\ process_object(in, 1, Range(collect_constants(in, <<>>).out)).ok

\* The lines of a text, and the number of tabs a line starts with.
RECURSIVE Lines(_, _, _), Indent(_)
Lines(text, i, cur) ==
    IF i > Len(text) THEN <<cur>>
    ELSE IF text[i] = "\n" THEN <<cur>> \o Lines(text, i + 1, <<>>)
    ELSE Lines(text, i + 1, Append(cur, text[i]))
Indent(line) == IF Len(line) > 0 /\ line[1] = "\t" THEN 1 + Indent(Tail(line)) ELSE 0
\* A line "<key> = $[" that opens the block of a table value.
OpensTable(line) ==
    /\ Len(line) >= 5
    /\ SubSeq(line, Len(line) - 4, Len(line)) = <<" ", "=", " ", "$", "[">>
\* A line that holds a closing bracket only.
ClosesTable(line) == Len(line) > 0 /\ lstrip(line, {"\t"}) = <<"]">>


\* ------------------------------------------------------------------ claims

\* C1: once substitution has succeeded, every string value whose
\* placeholders all name registered boolean or number constants has become
\* the string with each placeholder .{NAME}. replaced by the canonical text
\* of the constant's value: true / false in lower case for a boolean, the
\* decimal text for a number.
ScalarPlaceholders(s) ==
    \A n \in PlaceholderNames(s) :
        n \in consts /\ get_constant_value(toml_doc, n).t \in {"bool", "int"}
C1_CanonicalText ==
    Substituted =>
        \A p \in LeafPairs(toml_doc, data) :
            ScalarPlaceholders(p[1]) => p[2] = CanonicalPass(p[1], 1, toml_doc, consts)

\* C2: a document that declares one name in two different constants tables
\* never gets past discovery and never ends with status 0, and the
\* "Duplicate constant" error it ends with names such a name.
C2_DuplicateRejected ==
    (Parsed /\ DupNames(toml_doc) # {}) =>
        /\ ~Discovered
        /\ exit_status # 0
        /\ Failed("Duplicate constant") => stderr[1].name \in DupNames(toml_doc)

\* C3: a document with a constant name, section name or table key that is
\* no identifier is never translated successfully, and the identifier error
\* it ends with names such a name.
IdentifierErrors ==
    {"Invalid constant name", "Unsupported section name", "Unsupported identifier name"}
C3_InvalidNameRejected ==
    (Parsed /\ InvalidNames(toml_doc) # {}) =>
        /\ ~Emitted
        /\ exit_status # 0
        /\ (pc = "exit" /\ stderr[1].kind \in IdentifierErrors)
              => stderr[1].name \in InvalidNames(toml_doc)

\* C4: the output file is opened and written only when parsing, discovery,
\* declaration rendering, substitution and section emission have all
\* succeeded; when one of them fails the file is neither opened nor written,
\* the error stream holds exactly one "Error: <message>" line and the exit
\* status is 1; the exit status is 0 only once the file holds the result.
C4_WriteAfterSuccess ==
    /\ (fileOpened \/ fileWritten \/ fileContent # <<>>) => CoreSucceeds(input)
    /\ (pc = "exit" /\ ~CoreSucceeds(input)) =>
          /\ ~fileOpened
          /\ ~fileWritten
          /\ fileContent = <<>>
          /\ Len(stderr) = 1
          /\ stderr[1].prefix = "Error: "
          /\ stdout = <<>>
          /\ exit_status = 1
    /\ exit_status = 0 => (fileWritten /\ fileContent = result /\ stderr = <<>>)
    /\ pc # "exit" => (exit_status = -1 /\ stderr = <<>>)
\* A run that failed in the last phase before the write, section emission.
C4_Witness ==
    /\ Failed("Unsupported section name")
    /\ exit_status = 1
    /\ ~fileOpened
    /\ const_declarations # <<>>

\* C5: for a document with two or more sections, the emitted text is the
\* sections' blocks in document order, each block separated from the next
\* by an empty line.
SectionEntries(doc) ==
    SelectSeq(doc.entries, LAMBDA e : e.v.t = "table")
SectionBlocks(doc) ==
    [i \in DOMAIN SectionEntries(doc) |->
        po_section(SectionEntries(doc)[i].k, SectionEntries(doc)[i].v, 1, doc, consts).out]
C5_BlankLineBetweenSections ==
    (pc = "write" /\ Len(SectionEntries(toml_doc)) >= 2) =>
        config = Join(SectionBlocks(toml_doc), <<"\n">>)

\* C6: in the emitted text, the entries of the block of a table value under
\* a key of a section stand one tab deeper than the line of the key, and
\* the closing bracket stands at the indentation of that line.
NestedBlockIndented(ls, i) ==
    LET close == CHOOSE j \in (i + 1)..Len(ls) :
                     /\ ClosesTable(ls[j])
                     /\ \A k \in (i + 1)..(j - 1) : ~ClosesTable(ls[k])
    IN  /\ \A k \in (i + 1)..(close - 1) : Indent(ls[k]) = Indent(ls[i]) + 1
        /\ Indent(ls[close]) = Indent(ls[i])
C6_NestedIndentation ==
    pc = "write" =>
        \A i \in DOMAIN Lines(config, 1, <<>>) :
            (OpensTable(Lines(config, 1, <<>>)[i]) /\ Indent(Lines(config, 1, <<>>)[i]) = 2)
                => NestedBlockIndented(Lines(config, 1, <<>>), i)

\* C7: for a document with more than one constant, the def lines stand in
\* the order in which discovery registered the constants.
DiscoveryOrder(doc) == collect_constants(doc, <<>>).out
C7_DeclarationOrder ==
    (pc = "substitute" /\ Cardinality(consts) > 1) =>
        const_declarations = process_constants(toml_doc, DiscoveryOrder(toml_doc), consts).out

\* C8: substitution fails with "Undefined constant" exactly when a string
\* holds a full placeholder .{NAME}. of an unregistered name, and a string
\* that holds no full placeholder is left as it is.
Unregistered(s) == {n \in PlaceholderNames(s) : n \notin consts}
C8_UndefinedExactly ==
    /\ Failed("Undefined constant") =>
          \E s \in StringLeaves(toml_doc) : Unregistered(s) # {}
    /\ Substituted =>
          /\ \A s \in StringLeaves(toml_doc) : Unregistered(s) = {}
          /\ \A p \in LeafPairs(toml_doc, data) :
                PlaceholderNames(p[1]) = {} => p[2] = p[1]

\* C9: substitution is one pass: once it has succeeded, every string value
\* is the result of replacing the placeholders of the original string, and
\* no text that came in as the value of a constant has been expanded.
C9_SinglePass ==
    Substituted =>
        \A p \in LeafPairs(toml_doc, data) :
            p[2] = SinglePass(p[1], 1, toml_doc, consts)

\* C10: after a successful discovery, resolution finds, for every name of
\* the constant set, the value declared in the constants table discovery
\* registered the name from.
C10_ResolutionAgrees ==
    Discovered =>
        \A n \in consts :
            /\ get_constant_value(toml_doc, n) \notin {None, Raised}
            /\ get_constant_value(toml_doc, n) = DeclaredValue(toml_doc, n)

=============================================================================
